---- MODULE Spec2Model ----
(***************************************************************************)
(* Model of the context-aware, queue-based logging pipeline of             *)
(* src/app/utils/hp_py_logger.py and of the request-handling code that     *)
(* logs through it.                                                        *)
(*                                                                         *)
(* A Python dict is a function whose DOMAIN is its key set.  A text is a   *)
(* sequence of tokens, so that "s in text" is a contiguous-subsequence     *)
(* test.  Every value stored in a context or on a record is a pair         *)
(* [by, v]: v is the value, by names the execution unit that supplied it.  *)
(***************************************************************************)
EXTENDS Integers, Sequences, FiniteSets, TLC

VARIABLES
    installed,     \* logging._hp_logger_installed
    factoryOn,     \* the context-binding LogRecord factory is installed
    cfg,           \* the settings init_logging was called with (NoCfg before)
    handlers,      \* _listener_bundle.handlers / listener.handlers, in order
    bundle,        \* _listener_bundle is not None
    rootHandlers,  \* logging.getLogger().handlers
    noisyHandlers, \* own handlers of the named third-party loggers
    ctxvar,        \* _REQUEST_CTX as seen by each execution unit
    lastOp,        \* per unit: its last context call ("none", "set", "clear")
    everSet,       \* per unit: it has called set_request_context
    events,        \* every LogRecord created so far, indexed by id
    queue,         \* log_queue: record ids, or Sentinel
    worker,        \* the QueueListener thread: [pc, cur, idx]
    stalled,       \* the sink the worker is in never returns
    received,      \* per sink: ids of the records its handle was given
    seen,          \* per sink: the context fields it observed on each record
    dequeued,      \* ids in the order the worker dequeued them
    closed,        \* per sink: number of close() calls
    shut,          \* _shutdown_logging: [pc, idx, mark, pending]; mark and pending are
                   \* the records created and still queued when it was called
    blocked,       \* producers waiting inside a log call
    dropped,       \* number of records dropped at enqueue
    downLogs,      \* consumer states ("stalled", "stopped") log calls completed in
    outcome,       \* per unit: how its last request-handling step ended
    life,          \* init_logging: [pc, calls, started, built]: its position, the
                   \* calls made, listener threads started, sinks constructed
    minio,         \* the MinioBatchHandler instance and its clock
    failed,        \* the <<sink, record id>> pairs whose emit failed inside
    posts,         \* the POST requests LokiHTTPHandler has made: the record ids
                   \* each carried
    req            \* per unit: the HTTP request it is serving, on its way
                   \* through the middleware stack

vars == <<installed, factoryOn, cfg, handlers, bundle, rootHandlers,
          noisyHandlers, ctxvar, lastOp, everSet, events, queue, worker,
          stalled, received, seen, dequeued, closed, shut, blocked, dropped,
          downLogs, outcome, life, minio, failed, posts, req>>

pipelineVars == <<installed, factoryOn, cfg, handlers, bundle, rootHandlers,
                  noisyHandlers>>
workerVars == <<worker, stalled, received, seen, dequeued, closed, shut>>

(***************************************************************************)
(* Bounds                                                                  *)
(***************************************************************************)
MaxEvents == 2
MaxCalls == 2
MaxLines == 4

(***************************************************************************)
(* Values, dicts, texts                                                    *)
(***************************************************************************)
Units == {"A", "B"}
WorkerUnit == "worker"
AllUnits == Units \cup {WorkerUnit}

None == [by |-> "none", v |-> <<>>]
Val(u, toks) == [by |-> u, v |-> toks]

EmptyDict == [k \in {} |-> None]
DictGet(d, k) == IF k \in DOMAIN d THEN d[k] ELSE None
Merge(d, kw) ==
    [k \in (DOMAIN d) \cup (DOMAIN kw) |-> IF k \in DOMAIN kw THEN kw[k] ELSE d[k]]

Range(f) == {f[i] : i \in DOMAIN f}
NoDup(f) == \A i, j \in DOMAIN f : i # j => f[i] # f[j]

\* Python's  s in text  on token sequences
Contains(s, text) ==
    \E i \in 0..(Len(text) - Len(s)) :
        \A j \in 1..Len(s) : text[i + j] = s[j]

DEBUG == 10
INFO == 20
WARNING == 30
ERROR == 40
CRITICAL == 50
Levels == {DEBUG, INFO, WARNING, ERROR, CRITICAL}

(***************************************************************************)
(* Context store                                                           *)
(***************************************************************************)
CONTEXT_KEYS == {"request_id", "user", "method", "path", "ip"}

\* ContextVar("request_ctx", default={})
DefaultCtx == EmptyDict
Unset == [set |-> FALSE, val |-> EmptyDict]

\* _REQUEST_CTX.get() in unit u
CtxGet(store, u) == IF store[u].set THEN store[u].val ELSE DefaultCtx

set_request_context_shared(store, u, kwargs) ==
    [w \in DOMAIN store |-> [set |-> TRUE, val |-> Merge(CtxGet(store, u), kwargs)]]

set_request_context_replace(store, u, kwargs) ==
    [store EXCEPT ![u] = [set |-> TRUE, val |-> kwargs]]

set_request_context(store, u, kwargs) ==
    [store EXCEPT ![u] = [set |-> TRUE, val |-> Merge(CtxGet(store, u), kwargs)]]

update_request_context(store, u, kwargs) == set_request_context(store, u, kwargs)

clear_request_context_noop(store, u) == store

clear_request_context(store, u) ==
    [store EXCEPT ![u] = [set |-> TRUE, val |-> EmptyDict]]

(***************************************************************************)
(* LogRecord creation                                                      *)
(***************************************************************************)
\* attributes every LogRecord has in its __dict__ after LogRecord.__init__
StdAttrs == {"name", "msg", "args", "levelname", "levelno", "pathname",
             "filename", "module", "exc_info", "exc_text", "stack_info",
             "lineno", "funcName", "created", "msecs", "relativeCreated",
             "thread", "threadName", "processName", "process"}

StaticAttrs == [env |-> Val("proc", <<"dev">>),
                service |-> Val("proc", <<"app">>),
                host |-> Val("proc", <<"host">>)]

\* the non-standard attributes of the record the wrapped factory returns
old_factory == EmptyDict

factory_no_default(ctx0) ==
    LET ctx == IF DOMAIN ctx0 # {} THEN ctx0 ELSE EmptyDict
        keys == {k \in CONTEXT_KEYS : DictGet(ctx, k) # None}
        bound == [k \in (DOMAIN old_factory) \cup keys |->
                     IF k \in keys THEN ctx[k] ELSE old_factory[k]]
    IN  Merge(StaticAttrs, bound)

\* factory(): the attributes the record carries beyond the standard ones
factory(ctx0) ==
    LET ctx == IF DOMAIN ctx0 # {} THEN ctx0 ELSE EmptyDict
        bound == [k \in (DOMAIN old_factory) \cup CONTEXT_KEYS |->
                     IF k \in CONTEXT_KEYS
                     THEN IF DictGet(ctx, k) # None
                          THEN ctx[k]
                          ELSE DictGet(old_factory, k)
                     ELSE old_factory[k]]
    IN  Merge(StaticAttrs, bound)

\* logging.Logger.makeRecord: the record's attributes, or the KeyError
makeRecord(ctx, extra) ==
    LET attrs == IF factoryOn THEN factory(ctx) ELSE old_factory
        clash == {k \in DOMAIN extra :
                     k \in {"message", "asctime"} \/ k \in StdAttrs
                     \/ k \in DOMAIN attrs}
    IN  IF clash # {}
        THEN [ok |-> FALSE, attrs |-> attrs]
        ELSE [ok |-> TRUE, attrs |-> Merge(attrs, extra)]

(***************************************************************************)
(* Settings, sinks, filters                                                *)
(***************************************************************************)
NoCfg == [to_stdout |-> FALSE, to_file |-> FALSE, loki |-> "off", db |-> "off",
          minio |-> "off", level |-> INFO, exclude_paths |-> <<>>,
          format |-> "json"]

\* loki / db / minio: "off" (not enabled), "ok" (enabled, constructed),
\* "nourl" (enabled, the URL setting left unset), "fail" (enabled, the
\* constructor raises)
Configs ==
    { [to_stdout |-> TRUE, to_file |-> TRUE, loki |-> "nourl", db |-> "off",
       minio |-> "off", level |-> INFO, exclude_paths |-> << <<"/health">> >>,
       format |-> "json"],
      [to_stdout |-> TRUE, to_file |-> FALSE, loki |-> "ok", db |-> "fail",
       minio |-> "off", level |-> WARNING, exclude_paths |-> <<>>,
       format |-> "plain"] }

SinkNames == {"stdout", "access_file", "error_file", "loki", "db", "minio"}

Opt(cond, s) == IF cond THEN <<s>> ELSE <<>>

BuildHandlers_dup(c) ==
    Opt(c.to_stdout, "stdout")
    \o (IF c.to_file THEN <<"access_file", "access_file">> ELSE <<>>)
    \o Opt(c.loki = "ok", "loki")
    \o Opt(c.db = "ok", "db")
    \o Opt(c.minio = "ok", "minio")

\* the handlers list init_logging builds, in order
BuildHandlers(c) ==
    Opt(c.to_stdout, "stdout")
    \o (IF c.to_file THEN <<"access_file", "error_file">> ELSE <<>>)
    \o Opt(c.loki = "ok", "loki")
    \o Opt(c.db = "ok", "db")
    \o Opt(c.minio = "ok", "minio")

\* handler.level after the setLevel calls of init_logging
HandlerLevel_root(s, c) == c.level

HandlerLevel(s, c) == IF s = "error_file" THEN WARNING ELSE c.level

BelowWarningFilter(rec) == rec.levelno < WARNING

ExcludePathsFilter_msg_only(patterns, rec) ==
    ~ \E i \in 1..Len(patterns) :
        patterns[i] # <<>> /\ Contains(patterns[i], rec.msg)

ExcludePathsFilter(patterns, rec) ==
    LET path == DictGet(rec.attrs, "path")
        has(p) == Contains(p, rec.msg) \/ (path # None /\ path.v # <<>> /\ Contains(p, path.v))
    IN  ~ \E i \in 1..Len(patterns) : patterns[i] # <<>> /\ has(patterns[i])

\* Handler.filter for sink s
HandlerFilter(s, c, rec) ==
    IF s = "access_file"
    THEN BelowWarningFilter(rec) /\ ExcludePathsFilter(c.exclude_paths, rec)
    ELSE TRUE

\* QueueListener.handle with respect_handler_level, then Handler.handle
Accepts(s, c, rec) == rec.levelno >= HandlerLevel(s, c) /\ HandlerFilter(s, c, rec)

(***************************************************************************)
(* Queue                                                                   *)
(***************************************************************************)
Sentinel == 0
QueueMaxsize == -1

put_blocking(q, item) ==
    IF Len(q) >= 1
    THEN [q |-> q, res |-> "blocked"]
    ELSE [q |-> Append(q, item), res |-> "ok"]

\* queue.Queue.put_nowait
put_nowait(q, item) ==
    IF QueueMaxsize > 0 /\ Len(q) >= QueueMaxsize
    THEN [q |-> q, res |-> "Full"]
    ELSE [q |-> Append(q, item), res |-> "ok"]

dequeue_lifo(q) == [item |-> q[Len(q)], rest |-> SubSeq(q, 1, Len(q) - 1)]

\* QueueListener.dequeue
dequeue(q) == [item |-> Head(q), rest |-> Tail(q)]

QueuedEvents == Len(SelectSeq(queue, LAMBDA x : x # Sentinel))

\* Thread.join() of the listener thread returns
ThreadJoined_nowait(w) == TRUE

ThreadJoined(w) == w.pc = "exited"

\* what a handler reads from the record it is given
HandlerView_reread(rec, store) == factory(CtxGet(store, WorkerUnit))

HandlerView(rec, store) == rec.attrs

ContextOf(attrs) == [k \in CONTEXT_KEYS \cap DOMAIN attrs |-> attrs[k]]

(***************************************************************************)
(* Initial state: the module has been imported, init_logging not called    *)
(***************************************************************************)
NoSinkSeqs == [s \in SinkNames |-> <<>>]

\* _shutdown_logging has not been called: calls counts its calls, again tells
\* that one was made after a sink had been closed
NoShutdown == [pc |-> "idle", idx |-> 0, mark |-> 0, pending |-> 0,
               calls |-> 0, again |-> FALSE]

\* a MinioBatchHandler right after __init__: _buf, _seq, the time since
\* _last_flush; attempts counts the put_object calls, handled the handle calls
\* sent counts the lines put into an upload attempt, keys lists the _seq of
\* the object key of each successful upload, closed tells that close returned
\* or raised
MinioNew == [buf |-> <<>>, seq |-> 0, elapsed |-> 0, attempts |-> 0,
             handled |-> 0, sent |-> 0, keys |-> <<>>, closed |-> FALSE]

\* no request is being served
ReqNew == [pc |-> "none", auth |-> "none", hdr |-> "absent", rid |-> None,
           saved |-> <<>>, forwarded |-> 0, clears |-> 0, clearAt |-> "none",
           mark |-> -1, user |-> None, resp |-> "none", hdrOut |-> None,
           exc |-> FALSE]

Init ==
    /\ installed = FALSE
    /\ factoryOn = FALSE
    /\ cfg = NoCfg
    /\ handlers = <<>>
    /\ bundle = FALSE
    /\ rootHandlers \in {<<>>, <<"foreign">>}
    /\ noisyHandlers \in {0, 1}
    /\ ctxvar = [u \in AllUnits |-> Unset]
    /\ lastOp = [u \in Units |-> "none"]
    /\ everSet = [u \in Units |-> FALSE]
    /\ events = <<>>
    /\ queue = <<>>
    /\ worker = [pc |-> "none", cur |-> 0, idx |-> 0]
    /\ stalled = FALSE
    /\ received = NoSinkSeqs
    /\ seen = NoSinkSeqs
    /\ dequeued = <<>>
    /\ closed = [s \in SinkNames |-> 0]
    /\ shut = NoShutdown
    /\ blocked = {}
    /\ dropped = 0
    /\ downLogs = {}
    /\ outcome = [u \in Units |-> "none"]
    /\ life = [pc |-> "idle", calls |-> 0, started |-> 0, built |-> [s \in SinkNames |-> 0]]
    /\ minio = MinioNew
    /\ failed = {}
    /\ posts = <<>>
    /\ req = [u \in Units |-> ReqNew]

(***************************************************************************)
(* init_logging                                                            *)
(***************************************************************************)
\* the guard of init_logging: logging._hp_logger_installed
AlreadyInstalled_never == FALSE

AlreadyInstalled_bundle == bundle

AlreadyInstalled == installed

\* a call of init_logging(settings=c): the guard, then _install_record_factory
init_logging(c) ==
    /\ life.pc = "idle"
    /\ shut.pc \in {"idle", "done"}
    /\ life.calls < MaxCalls
    /\ IF AlreadyInstalled
       THEN /\ life' = [life EXCEPT !.calls = @ + 1]
            /\ UNCHANGED <<factoryOn, cfg>>
       ELSE /\ life' = [life EXCEPT !.calls = @ + 1, !.pc = "wire"]
            /\ factoryOn' = TRUE
            /\ cfg' = c
    /\ UNCHANGED <<installed, handlers, bundle, rootHandlers, noisyHandlers,
                   ctxvar, lastOp, everSet, events, queue, worker, stalled,
                   received, seen, dequeued, closed, shut, blocked, dropped,
                   downLogs, outcome, minio, failed, posts, req>>

\* init_logging from the sinks to the noisy loggers: handlers, queue, root
\* handlers, listener.start(), _listener_bundle
InitWire ==
    /\ life.pc = "wire"
    /\ handlers' = BuildHandlers(cfg)
    /\ queue' = <<>>
    /\ rootHandlers' = <<"queue">>
    /\ worker' = [pc |-> "wait", cur |-> 0, idx |-> 0]
    /\ bundle' = TRUE
    /\ noisyHandlers' = 0
    /\ life' = [life EXCEPT !.pc = "flag", !.started = @ + 1,
                            !.built = [s \in SinkNames |->
                                IF s \in Range(BuildHandlers(cfg))
                                THEN life.built[s] + 1 ELSE life.built[s]]]
    /\ UNCHANGED <<installed, factoryOn, cfg, ctxvar, lastOp, everSet, events,
                   stalled, received, seen, dequeued, closed, shut, blocked,
                   dropped, downLogs, outcome, minio, failed, posts, req>>

\* logging._hp_logger_installed = True; return
InitFinish ==
    /\ life.pc = "flag"
    /\ installed' = TRUE
    /\ life' = [life EXCEPT !.pc = "idle"]
    /\ UNCHANGED <<factoryOn, cfg, handlers, bundle, rootHandlers, noisyHandlers,
                   ctxvar, lastOp, everSet, events, queue, worker, stalled,
                   received, seen, dequeued, closed, shut, blocked, dropped,
                   downLogs, outcome, minio, failed, posts, req>>

(***************************************************************************)
(* Context calls made by an execution unit                                 *)
(***************************************************************************)
SetRequestContext(u, kwargs) ==
    /\ u \notin blocked
    /\ ctxvar' = set_request_context(ctxvar, u, kwargs)
    /\ lastOp' = [lastOp EXCEPT ![u] = "set"]
    /\ everSet' = [everSet EXCEPT ![u] = TRUE]
    /\ UNCHANGED <<pipelineVars, workerVars, events, queue, blocked, dropped, downLogs, outcome, life, minio, failed, posts, req>>

ClearRequestContext(u) ==
    /\ u \notin blocked
    /\ ctxvar' = clear_request_context(ctxvar, u)
    /\ lastOp' = [lastOp EXCEPT ![u] = "clear"]
    /\ UNCHANGED <<pipelineVars, workerVars, everSet, events, queue, blocked,
                   dropped, downLogs, outcome, life, minio, failed, posts, req>>

(***************************************************************************)
(* A log call through the public logger                                    *)
(***************************************************************************)
ConsumerState ==
    IF stalled THEN "stalled"
    ELSE IF worker.pc = "exited" THEN "stopped" ELSE "running"

\* Logger.callHandlers: one QueueHandler.emit per queue handler on the root
RECURSIVE EnqueueAll(_, _, _)
EnqueueAll(q, id, n) ==
    IF n = 0 THEN [q |-> q, res |-> "ok", drops |-> 0]
    ELSE LET r == put_nowait(q, id)
         IN  IF r.res = "blocked"
             THEN [q |-> r.q, res |-> "blocked", drops |-> 0]
             ELSE LET rest == EnqueueAll(r.q, id, n - 1)
                  IN  [q |-> rest.q, res |-> rest.res,
                       drops |-> rest.drops + (IF r.res = "Full" THEN 1 ELSE 0)]

QueueHandlersOnRoot == Len(SelectSeq(rootHandlers, LAMBDA h : h = "queue"))

\* hp_log.<level>(msg, extra=extra) in unit u; `after` is how the caller's step
\* ends when the call returns normally
LogCall(u, lvl, msg, extra, after) ==
    /\ installed
    /\ u \notin blocked
    /\ Len(events) < MaxEvents
    /\ LET mr == makeRecord(CtxGet(ctxvar, u), extra)
           id == Len(events) + 1
           rec == [id |-> id, unit |-> u, levelno |-> lvl, msg |-> msg,
                   attrs |-> mr.attrs,
                   ctxAtLog |-> CtxGet(ctxvar, u),
                   lastOpAtLog |-> lastOp[u],
                   everSetAtLog |-> everSet[u]]
           enq == EnqueueAll(queue, id, QueueHandlersOnRoot)
       IN  IF lvl < cfg.level
           THEN \* Logger.isEnabledFor(level) is false: no record is made
                /\ outcome' = [outcome EXCEPT ![u] = after]
                /\ UNCHANGED <<events, queue, blocked, dropped, downLogs>>
           ELSE IF ~ mr.ok
           THEN /\ outcome' = [outcome EXCEPT ![u] = "KeyError"]
                /\ UNCHANGED <<events, queue, blocked, dropped, downLogs>>
           ELSE /\ events' = Append(events, rec)
                /\ queue' = enq.q
                /\ dropped' = dropped + enq.drops
                /\ blocked' = IF enq.res = "blocked" THEN blocked \cup {u} ELSE blocked
                /\ downLogs' = IF enq.res # "blocked" /\ ConsumerState # "running"
                               THEN downLogs \cup {ConsumerState}
                               ELSE downLogs
                /\ outcome' = [outcome EXCEPT ![u] = after]
    /\ UNCHANGED <<pipelineVars, workerVars, ctxvar, lastOp, everSet, life, minio, failed, posts, req>>

Log(u, lvl, msg, extra) == LogCall(u, lvl, msg, extra, outcome[u])

(***************************************************************************)
(* The listener thread (QueueListener._monitor)                            *)
(***************************************************************************)
WorkerDequeue ==
    /\ worker.pc = "wait"
    /\ queue # <<>>
    /\ LET d == dequeue(queue)
       IN  /\ queue' = d.rest
           /\ IF d.item = Sentinel
              THEN /\ worker' = [pc |-> "exited", cur |-> 0, idx |-> 0]
                   /\ UNCHANGED dequeued
              ELSE /\ worker' = IF handlers = <<>>
                                THEN [pc |-> "wait", cur |-> 0, idx |-> 0]
                                ELSE [pc |-> "handle", cur |-> d.item, idx |-> 1]
                   /\ dequeued' = Append(dequeued, d.item)
    /\ UNCHANGED <<pipelineVars, ctxvar, lastOp, everSet, events, stalled,
                   received, seen, closed, shut, blocked, dropped, downLogs, outcome, life, minio, failed, posts, req>>

\* how emit of sink s ends when formatting, the network, the database or the
\* upload fails inside it: LokiHTTPHandler, DBHandler and MinioBatchHandler
\* wrap the body of emit in try / except Exception: pass, the library handlers
\* call handleError
EmitFailure_loki_raises(s) == IF s = "loki" THEN "raised" ELSE "swallowed"

EmitFailure(s) == "swallowed"

\* the POST requests LokiHTTPHandler.emit makes for record id; fails tells
\* that requests.post raises or answers with a status of 400 or above, which
\* emit passes over
LokiHTTPHandler_emit_retry(id, fails) ==
    IF fails THEN << <<id>>, <<id>> >> ELSE << <<id>> >>

LokiHTTPHandler_emit(id, fails) == << <<id>> >>

\* one iteration of the loop of QueueListener.handle: handlers[idx]; fails
\* tells whether the emit of that handler fails inside
WorkerEmit(fails) ==
    /\ worker.pc = "handle"
    /\ ~ stalled
    /\ LET s == handlers[worker.idx]
           rec == events[worker.cur]
           raised == fails /\ Accepts(s, cfg, rec) /\ EmitFailure(s) = "raised"
       IN  /\ IF Accepts(s, cfg, rec)
              THEN /\ received' = [received EXCEPT ![s] = Append(@, rec.id)]
                   /\ seen' = [seen EXCEPT ![s] =
                                  Append(@, ContextOf(HandlerView(rec, ctxvar)))]
                   /\ failed' = IF fails THEN failed \cup {<<s, rec.id>>}
                                         ELSE failed
                   /\ posts' = IF s = "loki"
                               THEN posts \o LokiHTTPHandler_emit(rec.id, fails)
                               ELSE posts
              ELSE UNCHANGED <<received, seen, failed, posts>>
           /\ worker' = IF raised
                        THEN [pc |-> "dead", cur |-> 0, idx |-> 0]
                        ELSE IF worker.idx = Len(handlers)
                        THEN [pc |-> "wait", cur |-> 0, idx |-> 0]
                        ELSE [worker EXCEPT !.idx = @ + 1]
    /\ UNCHANGED <<pipelineVars, ctxvar, lastOp, everSet, events, queue, stalled,
                   dequeued, closed, shut, blocked, dropped, downLogs, outcome,
                   life, minio, req>>

\* the iteration when the sink works
WorkerHandle == WorkerEmit(FALSE)

\* the sink the worker is in stops responding for good
SinkStall ==
    /\ worker.pc = "handle"
    /\ ~ stalled
    /\ stalled' = TRUE
    /\ UNCHANGED <<pipelineVars, ctxvar, lastOp, everSet, events, queue, worker,
                   received, seen, dequeued, closed, shut, blocked, dropped, downLogs, outcome, life, minio, failed, posts, req>>

(***************************************************************************)
(* _shutdown_logging                                                       *)
(***************************************************************************)
\* _listener_bundle is not None
HasBundle_always == TRUE

HasBundle == bundle

\* finally: _listener_bundle = None
BundleAfterShutdown_kept == bundle

BundleAfterShutdown == FALSE

\* entry; listener.stop() enqueues the sentinel
ShutdownCall ==
    /\ shut.pc \in {"idle", "done"}
    /\ life.pc = "idle"
    /\ shut.calls < MaxCalls
    /\ IF HasBundle
       THEN /\ queue' = put_nowait(queue, Sentinel).q
            /\ shut' = [pc |-> "join", idx |-> 0, mark |-> Len(events),
                        pending |-> QueuedEvents, calls |-> shut.calls + 1,
                        again |-> shut.again \/ \E s \in SinkNames : closed[s] > 0]
            /\ UNCHANGED bundle
       ELSE /\ shut' = [shut EXCEPT !.pc = "done", !.calls = @ + 1, !.again =
                            @ \/ \E s \in SinkNames : closed[s] > 0]
            /\ bundle' = BundleAfterShutdown
            /\ UNCHANGED queue
    /\ UNCHANGED <<installed, factoryOn, cfg, handlers, rootHandlers,
                   noisyHandlers, ctxvar, lastOp, everSet, events, worker,
                   stalled, received, seen, dequeued, closed, blocked, dropped,
                   downLogs, outcome, life, minio, failed, posts, req>>

\* listener.stop() returns once the thread has been joined
ShutdownJoin ==
    /\ shut.pc = "join"
    /\ ThreadJoined(worker)
    /\ IF handlers = <<>>
       THEN /\ shut' = [shut EXCEPT !.pc = "done"]
            /\ bundle' = BundleAfterShutdown
       ELSE /\ shut' = [shut EXCEPT !.pc = "close", !.idx = 1]
            /\ UNCHANGED bundle
    /\ UNCHANGED <<installed, factoryOn, cfg, handlers, rootHandlers,
                   noisyHandlers, ctxvar, lastOp, everSet, events, queue, worker,
                   stalled, received, seen, dequeued, closed, blocked, dropped,
                   downLogs, outcome, life, minio, failed, posts, req>>

\* how one h.close() call ends
CloseOutcomes == {"returns", "raises", "hangs"}

\* one iteration of  for h in handlers: try: h.close() except Exception: pass
\* close() is invoked; when it returns or raises the loop goes on to the next
\* handler, when it never returns the loop stays inside the call
CloseStep(o) ==
    /\ shut.pc = "close"
    /\ closed' = [closed EXCEPT ![handlers[shut.idx]] = @ + 1]
    /\ IF o = "hangs"
       THEN /\ shut' = [shut EXCEPT !.pc = "hung"]
            /\ UNCHANGED bundle
       ELSE IF shut.idx = Len(handlers)
       THEN /\ shut' = [shut EXCEPT !.pc = "done", !.idx = 0]
            /\ bundle' = BundleAfterShutdown
       ELSE /\ shut' = [shut EXCEPT !.idx = @ + 1]
            /\ UNCHANGED bundle
    /\ UNCHANGED <<installed, factoryOn, cfg, handlers, rootHandlers,
                   noisyHandlers, ctxvar, lastOp, everSet, events, queue, worker,
                   stalled, received, seen, dequeued, blocked, dropped, downLogs, outcome, life, minio, failed, posts, req>>

\* the iteration when every close() returns
ShutdownClose == CloseStep("returns")

(***************************************************************************)
(* Pipeline specification                                                  *)
(***************************************************************************)
RequestKw(u) ==
    [request_id |-> Val(u, <<"rid">>), method |-> Val(u, <<"GET">>),
     path |-> Val(u, IF u = "A" THEN <<"/health">> ELSE <<"/users">>),
     ip |-> IF u = "A" THEN Val(u, <<"10.0.0.1">>) ELSE None]

PipelineLevels == {INFO, ERROR}

MsgOf(u) == IF u = "A" THEN <<"ping">> ELSE <<"GET", "/health">>

Next ==
    \/ \E c \in Configs : init_logging(c)
    \/ InitWire
    \/ InitFinish
    \/ \E u \in Units, lvl \in PipelineLevels : Log(u, lvl, MsgOf(u), EmptyDict)
    \/ WorkerDequeue
    \/ WorkerHandle
    \/ SinkStall
    \/ ShutdownCall
    \/ ShutdownJoin
    \/ ShutdownClose

Spec == Init /\ [][Next]_vars

\* C6: the number of queued records never exceeds a fixed capacity below what
\* the producers can log, a full queue dropping the record instead
C6_QueueBounded == QueuedEvents < MaxEvents

\* C7: no producer is ever waiting inside a log call
C7_ProducersNeverBlock == blocked = {}

\* a log call completed, its record queued, while a sink was stalled for good
C7_Witness == "stalled" \in downLogs /\ stalled /\ QueuedEvents >= 1

\* C8: each sink is handed records in the order they were enqueued (record ids
\* are assigned at enqueue)
C8_Fifo ==
    \A s \in SinkNames : \A p, q \in 1..Len(received[s]) :
        p < q => received[s][p] < received[s][q]

\* a sink was handed two records of different producers
C8_Witness ==
    \E s \in SinkNames : \E p, q \in 1..Len(received[s]) :
        p < q /\ events[received[s][p]].unit # events[received[s][q]].unit

\* C9: no record is dequeued twice or handed twice to a sink; once installed,
\* the root logger has the queue handler only and the named loggers none
C9_AtMostOnce ==
    /\ NoDup(dequeued)
    /\ \A s \in SinkNames : NoDup(received[s])
    /\ installed => rootHandlers = <<"queue">> /\ noisyHandlers = 0

\* a record was fanned out to two sinks, then another was dequeued
C9_Witness ==
    /\ Len(dequeued) >= 2
    /\ dequeued[1] \in Range(received["stdout"]) \cap Range(received["access_file"])

\* C10: once _shutdown_logging has moved past listener.stop(), every record
\* created before the call has been handed to every sink that accepts it
C10_ShutdownDrains ==
    (shut.pc \in {"close", "done"} \/ \E s \in SinkNames : closed[s] > 0) =>
        \A id \in 1..shut.mark : \A s \in Range(handlers) :
            Accepts(s, cfg, events[id]) => id \in Range(received[s])

\* shutdown was called with two records still queued and has returned
C10_Witness ==
    /\ shut.pc = "done"
    /\ shut.pending >= 2
    /\ \A s \in Range(handlers) : closed[s] = 1
    /\ \E s \in Range(handlers) : Len(received[s]) >= 2

\* C11 in a state: no sink is closed twice, only constructed sinks are closed,
\* and once a shutdown that followed init has returned each was closed once
C11_Closed ==
    /\ \A s \in SinkNames : closed[s] <= 1
    /\ \A s \in SinkNames : closed[s] > 0 => s \in Range(handlers)
    /\ (installed /\ ~bundle) => \A s \in Range(handlers) : closed[s] = 1

\* C11 in a step: a closed sink is handed no further record
C11_NoHandleAfterClose ==
    \A s \in SinkNames : closed[s] > 0 => received'[s] = received[s]

\* C11: whatever shutdown calls follow a completed init, every sink of the
\* bundle is closed exactly once in total and is handed no record after its
\* close
C11_CloseExactlyOnce == []C11_Closed /\ [][C11_NoHandleAfterClose]_vars

\* a shutdown closed the sinks that had handled a record, and _shutdown_logging
\* was called again afterwards and returned
C11_Witness ==
    /\ shut.again
    /\ shut.pc = "done"
    /\ handlers # <<>>
    /\ \A s \in Range(handlers) : closed[s] = 1
    /\ \E s \in Range(handlers) : received[s] # <<>>

\* C12 in a state: after a completed init one listener thread was started, the
\* root logger has one queue handler and no sink was constructed twice
C12_OnePipeline ==
    installed =>
        /\ life.started = 1
        /\ QueueHandlersOnRoot = 1
        /\ Len(rootHandlers) = 1
        /\ \A s \in SinkNames : life.built[s] <= 1

\* C12 in a step: an init_logging call made after a completed one returns at
\* once and changes nothing of the pipeline
C12_FurtherCallNoOp ==
    (installed /\ life'.calls # life.calls) =>
        /\ life'.pc = "idle"
        /\ UNCHANGED <<installed, factoryOn, cfg, handlers, bundle, rootHandlers,
                       noisyHandlers, queue, worker, closed>>

\* C12: init_logging is idempotent once it has completed
C12_InitIdempotent == []C12_OnePipeline /\ [][C12_FurtherCallNoOp]_vars

\* init_logging was called a second time after the first call had completed,
\* and returned
C12_Witness == installed /\ life.calls >= 2 /\ life.pc = "idle"

\* the lifecycle state the four pipeline variables stand for
LifeState ==
    CASE ~factoryOn /\ ~installed /\ ~bundle /\ worker.pc = "none"
            -> "UNINITIALIZED"
      [] factoryOn /\ ~installed
            -> "INITIALIZING"
      [] factoryOn /\ installed /\ bundle /\ worker.pc \in {"wait", "handle"}
            -> "RUNNING"
      [] factoryOn /\ installed /\ bundle /\ worker.pc = "exited"
            -> "SHUTTING_DOWN"
      [] factoryOn /\ installed /\ ~bundle /\ worker.pc = "exited"
            -> "STOPPED"
      [] OTHER -> "invalid"

LifeRank(st) ==
    CASE st = "UNINITIALIZED" -> 0
      [] st = "INITIALIZING" -> 1
      [] st = "RUNNING" -> 2
      [] st = "SHUTTING_DOWN" -> 3
      [] st = "STOPPED" -> 4
      [] OTHER -> 9

\* C13 in a step: the lifecycle state stays or moves to the next one
C13_NextStateOnly ==
    LifeRank(LifeState') \in {LifeRank(LifeState), LifeRank(LifeState) + 1}

\* C13: under any sequence of init and shutdown calls the pipeline is always
\* in one of the five lifecycle states and moves only along UNINITIALIZED,
\* INITIALIZING, RUNNING, SHUTTING_DOWN, STOPPED, one state at a time
C13_Lifecycle == [](LifeState # "invalid") /\ [][C13_NextStateOnly]_vars

\* the pipeline was stopped, and both init_logging and _shutdown_logging have
\* been called again
C13_Witness ==
    /\ LifeState = "STOPPED"
    /\ life.calls >= 2
    /\ shut.again
    /\ shut.pc = "done"

\* C14: a _shutdown_logging call made when init_logging was never called
\* returns normally and changes nothing: no worker, no sink closed, nothing
\* queued, the same lifecycle state
C14_ShutdownBeforeInit ==
    [][(life.calls = 0 /\ shut'.calls # shut.calls) =>
          /\ shut'.pc = "done"
          /\ LifeState' = LifeState
          /\ UNCHANGED <<installed, factoryOn, cfg, handlers, bundle,
                         rootHandlers, noisyHandlers, worker, closed, queue,
                         life>>]_vars

\* _shutdown_logging has returned and init_logging was never called
C14_Witness == life.calls = 0 /\ shut.calls >= 1 /\ shut.pc = "done"

\* the optional sinks the settings enable
EnabledSinks(c) == {s \in {"loki", "db", "minio"} : c[s] # "off"}

\* C15: the pipeline is never running with an enabled sink absent: an enabled
\* sink whose URL is missing or whose constructor raises aborts init_logging
C15_ConfigErrorsFatal ==
    installed => EnabledSinks(cfg) \subseteq Range(handlers)

(***************************************************************************)
(* The running pipeline: the state init_logging leaves                     *)
(***************************************************************************)
FileCfg == CHOOSE c \in Configs : c.to_file

Running(c) ==
    /\ installed = TRUE
    /\ factoryOn = TRUE
    /\ cfg = c
    /\ handlers = BuildHandlers(c)
    /\ bundle = TRUE
    /\ rootHandlers = <<"queue">>
    /\ noisyHandlers = 0
    /\ ctxvar = [u \in AllUnits |-> Unset]
    /\ lastOp = [u \in Units |-> "none"]
    /\ everSet = [u \in Units |-> FALSE]
    /\ events = <<>>
    /\ queue = <<>>
    /\ worker = [pc |-> "wait", cur |-> 0, idx |-> 0]
    /\ stalled = FALSE
    /\ received = NoSinkSeqs
    /\ seen = NoSinkSeqs
    /\ dequeued = <<>>
    /\ closed = [s \in SinkNames |-> 0]
    /\ shut = NoShutdown
    /\ blocked = {}
    /\ dropped = 0
    /\ downLogs = {}
    /\ outcome = [u \in Units |-> "none"]
    /\ life = [pc |-> "idle", calls |-> 1, started |-> 1,
               built |-> [s \in SinkNames |->
                            IF s \in Range(BuildHandlers(c)) THEN 1 ELSE 0]]
    /\ minio = MinioNew
    /\ failed = {}
    /\ posts = <<>>
    /\ req = [u \in Units |-> ReqNew]

InitRunning == Running(FileCfg)

(***************************************************************************)
(* Context store and record factory                                        *)
(***************************************************************************)
\* the keyword arguments request entry and the auth layer pass
EntryKw(u, rid) ==
    [request_id |-> Val(u, <<rid>>), method |-> Val(u, <<"GET">>),
     path |-> Val(u, IF u = "A" THEN <<"/health">> ELSE <<"/users">>),
     ip |-> IF u = "A" THEN Val(u, <<"10.0.0.1">>) ELSE None]

UserKw(u) == [user |-> Val(u, <<"alice">>)]

CtxInputs(u) == {EntryKw(u, "r1"), EntryKw(u, "r2"), UserKw(u)}

NextCtx ==
    \/ \E u \in Units : \E kw \in CtxInputs(u) : SetRequestContext(u, kw)
    \/ \E u \in Units : ClearRequestContext(u)
    \/ \E u \in Units : Log(u, INFO, <<"ping">>, EmptyDict)

SpecCtx == InitRunning /\ [][NextCtx]_vars

CtxFields(rec) == [k \in CONTEXT_KEYS |-> DictGet(rec.attrs, k)]

\* C1: no record made by a unit, and no snapshot a unit reads, carries a
\* request_id, user, method, path or ip that another unit supplied
C1_Isolation ==
    /\ \A i \in 1..Len(events) : \A k \in CONTEXT_KEYS :
          CtxFields(events[i])[k].by \in {events[i].unit, "none"}
    /\ \A u \in Units : \A k \in DOMAIN CtxGet(ctxvar, u) :
          CtxGet(ctxvar, u)[k].by \in {u, "none"}

\* both units hold a context and each has logged under its own
C1_Witness ==
    /\ \A u \in Units : DictGet(CtxGet(ctxvar, u), "request_id") # None
    /\ \E i, j \in 1..Len(events) :
          /\ i < j
          /\ events[i].unit # events[j].unit
          /\ CtxFields(events[i])["request_id"] # None
          /\ CtxFields(events[j])["request_id"] # None

\* C4: a record made right after clear_request_context in the same unit has
\* all five context fields equal to the sentinel
C4_NoStaleContext ==
    \A i \in 1..Len(events) :
        events[i].lastOpAtLog = "clear" =>
            \A k \in CONTEXT_KEYS : CtxFields(events[i])[k] = None

\* a unit that had set a context cleared it and then logged
C4_Witness ==
    \E i \in 1..Len(events) :
        events[i].lastOpAtLog = "clear" /\ events[i].everSetAtLog

\* C5: a record made in a unit that never called set_request_context has
\* every context field present and equal to the sentinel, and the call returned
C5_UnsetIsSentinel ==
    /\ \A i \in 1..Len(events) :
          ~ events[i].everSetAtLog =>
              /\ CONTEXT_KEYS \subseteq DOMAIN events[i].attrs
              /\ \A k \in CONTEXT_KEYS : events[i].attrs[k] = None
    /\ \A u \in Units : ~ everSet[u] => outcome[u] # "KeyError"

\* a never-set unit logged while the other unit held a context
C5_Witness ==
    \E i \in 1..Len(events) :
        /\ ~ events[i].everSetAtLog
        /\ \E u \in Units \ {events[i].unit} :
              DictGet(CtxGet(ctxvar, u), "request_id") # None /\ everSet[u]
        /\ ~ everSet[events[i].unit]

(***************************************************************************)
(* Copy at creation: context calls racing with the listener thread         *)
(***************************************************************************)
NextCopy ==
    \/ \E u \in Units : SetRequestContext(u, RequestKw(u))
    \/ \E u \in Units : ClearRequestContext(u)
    \/ \E u \in Units : Log(u, INFO, <<"ping">>, EmptyDict)
    \/ WorkerDequeue
    \/ WorkerHandle

SpecCopy == InitRunning /\ [][NextCopy]_vars

\* C2: the context fields a sink observes on a record are the producing
\* unit's snapshot at the log call, whatever was set or cleared since
C2_CopyAtCreation ==
    \A s \in SinkNames :
        /\ Len(seen[s]) = Len(received[s])
        /\ \A p \in 1..Len(received[s]) : \A k \in CONTEXT_KEYS :
              DictGet(seen[s][p], k) = DictGet(events[received[s][p]].ctxAtLog, k)

\* a sink was handed a record whose producer has changed its context since
C2_Witness ==
    \E s \in SinkNames : \E p \in 1..Len(received[s]) :
        LET rec == events[received[s][p]]
        IN  /\ DictGet(rec.ctxAtLog, "request_id") # None
            /\ CtxGet(ctxvar, rec.unit) # rec.ctxAtLog

(***************************************************************************)
(* Request-handling code that logs with attributes                         *)
(***************************************************************************)
\* require_roles._checker on the forbidden path
RoleGuardForbidden(u) ==
    LogCall(u, WARNING, <<"Access forbidden">>,
            [user |-> Val(u, <<"alice">>),
             required_roles |-> Val(u, <<"admin">>),
             user_roles |-> Val(u, <<"viewer">>)],
            "403")

\* require_metrics_access.guard on its two denying paths
MetricsGuardDenied(u, mode) ==
    LogCall(u, WARNING, <<"Metrics access denied">>,
            IF mode = "allowlist"
            THEN [ip |-> Val(u, <<"10.0.0.1">>), path |-> Val(u, <<"/metrics">>)]
            ELSE [user |-> Val(u, <<"alice">>)],
            "403")

\* a FastAPI dependency that raises anything but HTTPException
Unhandled(u) ==
    /\ outcome[u] = "KeyError"
    /\ outcome' = [outcome EXCEPT ![u] = "500"]
    /\ UNCHANGED <<pipelineVars, workerVars, ctxvar, lastOp, everSet, events,
                   queue, blocked, dropped, downLogs, life, minio, failed, posts, req>>

ExtraInputs(u) == {EmptyDict, [user |-> Val(u, <<"alice">>)]}

NextGuard ==
    \/ \E c \in Configs : init_logging(c)
    \/ InitWire
    \/ InitFinish
    \/ \E u \in Units : SetRequestContext(u, RequestKw(u))
    \/ \E u \in Units, lvl \in Levels : \E extra \in ExtraInputs(u) :
          LogCall(u, lvl, <<"ping">>, extra, "returned")
    \/ \E u \in Units : RoleGuardForbidden(u)
    \/ \E u \in Units, mode \in {"allowlist", "role"} : MetricsGuardDenied(u, mode)
    \/ \E u \in Units : Unhandled(u)

SpecGuard == Init /\ [][NextGuard]_vars

\* C3: no log call made by request-handling code raises to its caller, and
\* the guards' denying paths end in their 403 response
C3_LoggingNeverRaises ==
    \A u \in Units : outcome[u] \notin {"KeyError", "500"}

(***************************************************************************)
(* Sinks that fail inside emit                                             *)
(***************************************************************************)
SinkCfg == [to_stdout |-> TRUE, to_file |-> FALSE, loki |-> "ok", db |-> "ok",
            minio |-> "ok", level |-> INFO, exclude_paths |-> <<>>,
            format |-> "json"]

InitSinks == Running(SinkCfg)

NextSinks ==
    \/ \E u \in Units : \E lvl \in PipelineLevels : Log(u, lvl, MsgOf(u), EmptyDict)
    \/ WorkerDequeue
    \/ \E fails \in BOOLEAN : WorkerEmit(fails)

SpecSinks == InitSinks /\ [][NextSinks]_vars

\* the records the worker has finished dispatching
Dispatched == {id \in Range(dequeued) : worker.cur # id}

\* C16: a failure inside one sink's emit reaches neither the worker thread nor
\* a producer, and every record the worker has finished with was handed to
\* every sink that accepts it, the records after a failure included
C16_FailureIsolation ==
    /\ worker.pc # "dead"
    /\ blocked = {}
    /\ \A u \in Units : outcome[u] \in {"none", "ok"}
    /\ \A id \in Dispatched : \A s \in Range(handlers) :
           Accepts(s, cfg, events[id]) => id \in Range(received[s])

\* the Loki sink failed on a record, the sinks after it in the list were
\* handed that record, and a later record was dispatched to all of them
C16_Witness ==
    \E id \in Dispatched : \E later \in Dispatched :
        /\ <<"loki", id>> \in failed
        /\ \A s \in Range(handlers) : id \in Range(received[s])
        /\ later > id
        /\ \A s \in Range(handlers) : later \in Range(received[s])

(***************************************************************************)
(* Sink filters and formatters                                             *)
(***************************************************************************)
LevelName(l) ==
    CASE l = DEBUG -> "DEBUG" [] l = INFO -> "INFO" [] l = WARNING -> "WARNING"
      [] l = ERROR -> "ERROR" [] OTHER -> "CRITICAL"

\* json.dumps of a record attribute / %(attr)s of a record attribute
JsonTok(val) == IF val = None THEN <<"null">> ELSE val.v
PlainTok(val) == IF val = None THEN <<"None">> ELSE val.v

JSONFormatter_format_no_request_id(rec, view) ==
    <<"ts", "<created>", "level", LevelName(rec.levelno), "name", "app", "msg">>
    \o rec.msg
    \o <<"module", "<module>", "fn", "<fn>", "line", "<line>",
         "process", "<pid>", "thread", "<tid>">>
    \o <<"user">> \o JsonTok(DictGet(view, "user"))

\* JSONFormatter.format: the payload in key order
JSONFormatter_format(rec, view) ==
    <<"ts", "<created>", "level", LevelName(rec.levelno), "name", "app", "msg">>
    \o rec.msg
    \o <<"module", "<module>", "fn", "<fn>", "line", "<line>",
         "process", "<pid>", "thread", "<tid>">>
    \o <<"request_id">> \o JsonTok(DictGet(view, "request_id"))
    \o <<"user">> \o JsonTok(DictGet(view, "user"))
    \o <<"method">> \o JsonTok(DictGet(view, "method"))
    \o <<"path">> \o JsonTok(DictGet(view, "path"))
    \o <<"ip">> \o JsonTok(DictGet(view, "ip"))
    \o <<"env">> \o JsonTok(DictGet(view, "env"))
    \o <<"service">> \o JsonTok(DictGet(view, "service"))
    \o <<"host">> \o JsonTok(DictGet(view, "host"))

\* PlainFormatter.default_fmt
PlainFormatter_format(rec, view) ==
    <<"<asctime>", "|", LevelName(rec.levelno), "|", "app", "|">>
    \o rec.msg
    \o <<"|", "req=">> \o PlainTok(DictGet(view, "request_id"))
    \o <<"user=">> \o PlainTok(DictGet(view, "user"))
    \o PlainTok(DictGet(view, "method"))
    \o PlainTok(DictGet(view, "path"))
    \o <<"ip=">> \o PlainTok(DictGet(view, "ip"))

\* the formatter init_logging gives sink s
SinkFormat(s, c) ==
    IF s \in {"loki", "db", "minio"} \/ c.format = "json" THEN "json" ELSE "plain"

\* the lines sink s has written, one for each record it was handed
SinkLines(s) ==
    [p \in 1..Len(received[s]) |->
        [id |-> received[s][p],
         text |-> IF SinkFormat(s, cfg) = "json"
                  THEN JSONFormatter_format(events[received[s][p]], seen[s][p])
                  ELSE PlainFormatter_format(events[received[s][p]], seen[s][p])]]

LinesFor(s, id) == {p \in 1..Len(received[s]) : SinkLines(s)[p].id = id}

FilterLevels == {INFO, WARNING, ERROR}

FilterMsg(u) == IF u = "A" THEN <<"ping">> ELSE <<"pong">>

\* the file sinks enabled, under every LOG_LEVEL and LOG_FORMAT
InitFilter ==
    \E lvl \in Levels : \E fmt \in {"json", "plain"} :
        Running([FileCfg EXCEPT !.level = lvl, !.format = fmt])

NextFilter ==
    \/ \E u \in Units : SetRequestContext(u, EntryKw(u, "r1"))
    \/ \E u \in Units : \E lvl \in FilterLevels :
          LogCall(u, lvl, FilterMsg(u), EmptyDict, LevelName(lvl))
    \/ WorkerDequeue
    \/ WorkerHandle

SpecFilter == InitFilter /\ [][NextFilter]_vars

\* the worker has nothing queued and nothing in hand
Quiescent == queue = <<>> /\ worker.pc = "wait"

\* C17 as stated: wherever the Error File sink is enabled it is handed no INFO
\* record, and every hp_log.error call has reached it once the worker has
\* caught up
C17_LevelFilter ==
    "error_file" \in Range(handlers) =>
        /\ \A id \in Range(received["error_file"]) : events[id].levelno # INFO
        /\ Quiescent =>
              \A u \in Units : outcome[u] = "ERROR" =>
                  \E id \in Range(received["error_file"]) :
                      events[id].unit = u /\ events[id].levelno = ERROR

\* C17 amended: the same, for the configurations whose level threshold is not
\* above ERROR; above it hp_log.error creates no record at all
C17_LevelFilterAtThreshold ==
    "error_file" \in Range(handlers) =>
        /\ \A id \in Range(received["error_file"]) : events[id].levelno # INFO
        /\ (Quiescent /\ cfg.level <= ERROR) =>
              \A u \in Units : outcome[u] = "ERROR" =>
                  \E id \in Range(received["error_file"]) :
                      events[id].unit = u /\ events[id].levelno = ERROR

\* an INFO record and an ERROR record were dispatched, the ERROR one to the
\* Error File sink
C17_Witness ==
    /\ Quiescent
    /\ cfg.level <= INFO
    /\ \E id \in Dispatched : events[id].levelno = INFO
    /\ \E u \in Units : outcome[u] = "ERROR"
    /\ \E id \in Range(received["error_file"]) : events[id].levelno = ERROR

\* the context path of the record equals an excluded pattern
PathExcluded(rec) ==
    \E i \in 1..Len(cfg.exclude_paths) :
        DictGet(rec.attrs, "path") = Val(rec.unit, cfg.exclude_paths[i])

\* C18: a record whose context path equals an excluded pattern is never
\* handed to the Access File sink, and is handed to the Error File sink when
\* its level is WARNING or above
C18_PathExclusion ==
    \A id \in 1..Len(events) :
        PathExcluded(events[id]) =>
            /\ id \notin Range(received["access_file"])
            /\ (id \in Dispatched /\ events[id].levelno >= WARNING) =>
                  id \in Range(received["error_file"])

\* an INFO record and a record at WARNING or above, both on an excluded path,
\* were dispatched; the second is in the Error File sink
C18_Witness ==
    \E i, j \in Dispatched :
        /\ PathExcluded(events[i]) /\ events[i].levelno = INFO
        /\ PathExcluded(events[j]) /\ events[j].levelno >= WARNING
        /\ j \in Range(received["error_file"])

\* the INFO record "ping" made under request_id r1 and path /health
IsPing(rec) ==
    /\ rec.levelno = INFO
    /\ rec.msg = <<"ping">>
    /\ DictGet(rec.ctxAtLog, "request_id") = Val(rec.unit, <<"r1">>)
    /\ DictGet(rec.ctxAtLog, "path") = Val(rec.unit, <<"/health">>)

\* C19: with /health excluded, the console enabled and the threshold at INFO,
\* the dispatched INFO record "ping" of request r1 on /health has no line in
\* the Access File sink and exactly one in the Console sink, which contains
\* r1 and ping
C19_FiltersPerSink ==
    (cfg.level = INFO /\ cfg.to_stdout /\ cfg.exclude_paths = << <<"/health">> >>) =>
        \A id \in Dispatched :
            IsPing(events[id]) =>
                /\ LinesFor("access_file", id) = {}
                /\ Cardinality(LinesFor("stdout", id)) = 1
                /\ \A p \in LinesFor("stdout", id) :
                      /\ Contains(<<"r1">>, SinkLines("stdout")[p].text)
                      /\ Contains(<<"ping">>, SinkLines("stdout")[p].text)

\* that record was dispatched, and the Access File sink has a line of another
\* record
C19_Witness ==
    /\ cfg.level = INFO
    /\ \E id \in Dispatched : IsPing(events[id])
    /\ received["access_file"] # <<>>

(***************************************************************************)
(* MinioBatchHandler                                                       *)
(***************************************************************************)
\* minio_flush_lines and minio_flush_secs (in clock ticks)
FlushLines == 2
FlushSecs == 2

\* a formatted line: "text" encodes to UTF-8, "surrogate" holds a lone
\* surrogate (json.dumps(ensure_ascii=False) keeps it) and does not
LineKinds == {"text", "surrogate"}

\* logs/{service}/{Y/m/d/H}/batch-{pid}-{seq}.jsonl, within one hour of one
\* process
_object_key(m) == <<"logs", "<service>", "<hour>", "batch", "<pid>", m.seq>>

_should_flush(m) == Len(m.buf) >= FlushLines \/ m.elapsed >= FlushSecs

\* _flush_locked: the join and encode of the buffer come before the try, so an
\* unencodable line raises out of it with the buffer untouched; upload tells
\* whether put_object succeeds
_flush_locked_keep_seq(m, upload) ==
    IF m.buf = <<>>
    THEN [m |-> m, raised |-> FALSE]
    ELSE IF \E i \in 1..Len(m.buf) : m.buf[i] = "surrogate"
    THEN [m |-> m, raised |-> TRUE]
    ELSE IF upload
    THEN [m |-> [m EXCEPT !.attempts = @ + 1, !.sent = @ + Len(m.buf),
                          !.keys = Append(@, _object_key(m)),
                          !.buf = <<>>, !.elapsed = 0],
          raised |-> FALSE]
    ELSE [m |-> [m EXCEPT !.attempts = @ + 1, !.sent = @ + Len(m.buf),
                          !.buf = <<>>, !.elapsed = 0],
          raised |-> FALSE]

_flush_locked(m, upload) ==
    IF m.buf = <<>>
    THEN [m |-> m, raised |-> FALSE]
    ELSE IF \E i \in 1..Len(m.buf) : m.buf[i] = "surrogate"
    THEN [m |-> m, raised |-> TRUE]
    ELSE IF upload
    THEN [m |-> [m EXCEPT !.attempts = @ + 1, !.sent = @ + Len(m.buf),
                          !.keys = Append(@, _object_key(m)),
                          !.seq = @ + 1, !.buf = <<>>, !.elapsed = 0],
          raised |-> FALSE]
    ELSE [m |-> [m EXCEPT !.attempts = @ + 1, !.sent = @ + Len(m.buf),
                          !.buf = <<>>, !.elapsed = 0],
          raised |-> FALSE]

\* MinioBatchHandler.emit of a record that formats to line; an exception of
\* _flush_locked is swallowed
emit(m, line, upload) ==
    LET appended == [m EXCEPT !.buf = Append(@, line), !.handled = @ + 1]
    IN  IF _should_flush(appended)
        THEN _flush_locked(appended, upload).m
        ELSE appended

\* MinioBatchHandler.close: the flush, then Handler.close in the finally
close(m, upload) == [_flush_locked(m, upload).m EXCEPT !.closed = TRUE]

MinioEmit(line, upload) ==
    /\ ~ minio.closed
    /\ minio.handled < MaxLines
    /\ minio' = emit(minio, line, upload)
    /\ UNCHANGED <<pipelineVars, workerVars, ctxvar, lastOp, everSet, events,
                   queue, blocked, dropped, downLogs, outcome, life, failed, posts, req>>

\* time passes; once flush_secs have elapsed more time changes nothing
Tick ==
    /\ ~ minio.closed
    /\ minio.elapsed < FlushSecs
    /\ minio' = [minio EXCEPT !.elapsed = @ + 1]
    /\ UNCHANGED <<pipelineVars, workerVars, ctxvar, lastOp, everSet, events,
                   queue, blocked, dropped, downLogs, outcome, life, failed, posts, req>>

\* _shutdown_logging closes the handler
MinioClose(upload) ==
    /\ ~ minio.closed
    /\ minio' = close(minio, upload)
    /\ UNCHANGED <<pipelineVars, workerVars, ctxvar, lastOp, everSet, events,
                   queue, blocked, dropped, downLogs, outcome, life, failed,
                   posts, req>>

NextMinio ==
    \/ \E line \in LineKinds : \E upload \in BOOLEAN : MinioEmit(line, upload)
    \/ Tick
    \/ \E upload \in BOOLEAN : MinioClose(upload)

SpecMinio == InitSinks /\ [][NextMinio]_vars

\* the clock runs on; no record has to arrive and nobody has to call close
SpecMinioFair == SpecMinio /\ WF_vars(Tick)

\* C20: after every handle call the buffer holds fewer than flush_lines
\* lines, and once flush_lines records have been handled an upload has been
\* attempted
C20_FlushInvariant ==
    /\ Len(minio.buf) < FlushLines
    /\ minio.handled >= FlushLines => minio.attempts >= 1

\* C21: when close has been called the buffer is empty and every line the
\* handler accepted was put into exactly one upload attempt
C21_CloseFlushes ==
    minio.closed => minio.buf = <<>> /\ minio.sent = minio.handled

\* C22: while the handler is open, a non-empty buffer whose flush_secs have
\* elapsed is eventually flushed, also when no further record arrives
C22_TimeTrigger ==
    (~ minio.closed /\ minio.buf # <<>> /\ minio.elapsed >= FlushSecs)
        ~> (minio.buf = <<>> \/ minio.closed)

\* C30: _seq is the number of successful uploads so far, and no two
\* successful uploads used the same object key
C30_KeysNeverReused ==
    /\ minio.seq = Len(minio.keys)
    /\ NoDup(minio.keys)
    /\ \A i \in 1..Len(minio.keys) : minio.keys[i][6] = i - 1

\* two uploads succeeded, one failed and one flush found the buffer empty
C30_Witness ==
    /\ Len(minio.keys) >= 2
    /\ minio.attempts > Len(minio.keys)
    /\ minio.closed
    /\ minio.sent = minio.handled

\* C23: LokiHTTPHandler has made one POST for each record it was handed, in
\* order, each carrying that record alone; no dequeued record is back in the
\* queue, and the worker thread is alive
C23_FireAndForget ==
    /\ Len(posts) = Len(received["loki"])
    /\ \A p \in 1..Len(posts) : posts[p] = <<received["loki"][p]>>
    /\ \A id \in Range(dequeued) : \A i \in 1..Len(queue) : queue[i] # id
    /\ worker.pc # "dead"

\* the POST of a record failed, the record was dropped and the worker has
\* dispatched it and a later record
C23_Witness ==
    \E id \in Dispatched : \E later \in Dispatched :
        /\ <<"loki", id>> \in failed
        /\ later > id
        /\ Len(posts) = 2

\* C24 in a step: set_request_context(m) leaves a snapshot that exists, has
\* the keys of the previous one and of m, m's value for each key of m and the
\* previous value for every other key; clear_request_context leaves the empty
\* mapping
C24_MergeStep ==
    /\ \A u \in Units : \A kw \in CtxInputs(u) :
          SetRequestContext(u, kw) =>
              LET old == CtxGet(ctxvar, u)
                  new == CtxGet(ctxvar', u)
              IN  /\ ctxvar'[u].set
                  /\ DOMAIN new = (DOMAIN old) \cup (DOMAIN kw)
                  /\ \A k \in DOMAIN kw : new[k] = kw[k]
                  /\ \A k \in (DOMAIN old) \ (DOMAIN kw) : new[k] = old[k]
    /\ \A u \in Units :
          ClearRequestContext(u) => DOMAIN CtxGet(ctxvar', u) = {}

\* C24: set_request_context merges into the calling unit's snapshot and
\* clear_request_context empties it
C24_ContextMerge == [][C24_MergeStep]_vars

\* one unit holds the user together with the request_id of a later set, the
\* other has cleared a snapshot it had set
C24_Witness ==
    \E u, w \in Units :
        /\ u # w
        /\ DictGet(CtxGet(ctxvar, u), "user") = Val(u, <<"alice">>)
        /\ DictGet(CtxGet(ctxvar, u), "request_id") = Val(u, <<"r2">>)
        /\ lastOp[w] = "clear" /\ everSet[w]
        /\ DOMAIN CtxGet(ctxvar, w) = {}

(***************************************************************************)
(* Shutdown with sinks whose close() may raise or never return             *)
(***************************************************************************)
NextClose ==
    \/ \E u \in Units : Log(u, INFO, MsgOf(u), EmptyDict)
    \/ WorkerDequeue
    \/ WorkerHandle
    \/ ShutdownCall
    \/ ShutdownJoin
    \/ \E o \in CloseOutcomes : CloseStep(o)

SpecClose == InitSinks /\ [][NextClose]_vars

\* the listener thread and the thread running _shutdown_logging keep running
SpecCloseFair ==
    /\ SpecClose
    /\ WF_vars(WorkerDequeue)
    /\ WF_vars(WorkerHandle)
    /\ WF_vars(ShutdownJoin)
    /\ WF_vars(\E o \in CloseOutcomes : CloseStep(o))

\* C28: once the close loop of a shutdown has started, close() is eventually
\* invoked on every configured sink, whether a sink's close() returns, raises
\* or never returns
C28_CloseIsolation ==
    (shut.pc = "close") ~> (\A i \in 1..Len(handlers) : closed[handlers[i]] > 0)

\* C28, the part about a raising close(): a close() that raises does not
\* keep the loop from reaching the remaining sinks
C28_RaiseIsolated ==
    (shut.pc = "close") ~>
        (shut.pc = "hung" \/ \A i \in 1..Len(handlers) : closed[handlers[i]] > 0)

(***************************************************************************)
(* One HTTP request through JWTContextMiddleware, RequestContextMiddleware *)
(* and the route handler.  call_next runs the downstream application in a  *)
(* task that starts with a copy of the caller's context: ctxvar[u] is the  *)
(* context of the task of request u that is running, req[u].saved the      *)
(* contexts of the dispatch calls waiting in call_next, outermost first    *)
(***************************************************************************)
\* the Authorization header: absent, not a bearer header, a bearer token that
\* does not verify or has expired, a verified token without sub, a verified
\* token with sub
AuthKinds == {"none", "malformed", "invalid", "nosub", "valid"}

\* the inbound x-request-id header: absent, present with an empty value,
\* present with a value
HeaderKinds == {"absent", "empty", "given"}

\* request.headers.get("x-request-id")
headers_get(kind, u) ==
    IF kind = "absent" THEN None
    ELSE IF kind = "empty" THEN Val("client", <<>>)
    ELSE Val("client", <<"r1", u>>)

\* str(uuid.uuid4())
uuid4(u) == Val(u, <<"uuid4">>)

\* truth value of a str | None
Truthy(x) == x # None /\ x.v # <<>>

\* req_id = request.headers.get("x-request-id") or str(uuid.uuid4())
req_id(kind, u) ==
    IF Truthy(headers_get(kind, u)) THEN headers_get(kind, u) ELSE uuid4(u)

EntryKwargs_user_none(u, rid) ==
    [k \in {"request_id", "method", "path", "ip", "user"} |->
        IF k = "request_id" THEN rid
        ELSE IF k = "user" THEN None ELSE EntryKw(u, "r1")[k]]

\* the keyword arguments of the set_request_context call of dispatch
EntryKwargs(u, rid) == [EntryKw(u, "r1") EXCEPT !.request_id = rid]

\* what the try block of JWTContextMiddleware.dispatch does with the header:
\* no decode, a decode that raises JWTError, or a decoded payload
JwtDecode(kind) ==
    IF kind \in {"none", "malformed"} THEN "skipped"
    ELSE IF kind = "invalid" THEN "JWTError"
    ELSE "payload"

\* payload.get("sub")
JwtSub(kind, u) == IF kind = "valid" THEN Val(u, <<"alice">>) ELSE None

JwtRaises_strict(kind) == JwtDecode(kind) = "JWTError"

\* whether an exception leaves the try block:  except JWTError: pass
\* except Exception: pass
JwtRaises(kind) == FALSE

\* user.id of the user get_current_user resolves
UserId(u) == Val(u, <<"id", u>>)

finally_clear_on_return(store, u, raised) ==
    IF raised THEN [store |-> store, calls |-> 0]
    ELSE [store |-> clear_request_context(store, u), calls |-> 1]

\* finally: clear_request_context()
finally_clear(store, u, raised) ==
    [store |-> clear_request_context(store, u), calls |-> 1]

\* the server hands a request to the application
Arrive(u, a, h) ==
    /\ req[u].pc = "none"
    /\ req' = [req EXCEPT ![u] = [ReqNew EXCEPT !.pc = "jwt", !.auth = a, !.hdr = h]]
    /\ UNCHANGED <<pipelineVars, workerVars, ctxvar, lastOp, everSet, events,
                   queue, blocked, dropped, downLogs, outcome, life, minio,
                   failed, posts>>

\* JWTContextMiddleware.dispatch up to  await call_next(request)
JwtDispatch(u) ==
    /\ req[u].pc = "jwt"
    /\ IF JwtRaises(req[u].auth)
       THEN /\ req' = [req EXCEPT ![u].pc = "done", ![u].exc = TRUE,
                                  ![u].resp = "500"]
            /\ UNCHANGED ctxvar
       ELSE LET enrich == JwtDecode(req[u].auth) = "payload"
                              /\ Truthy(JwtSub(req[u].auth, u))
                store == IF enrich
                         THEN update_request_context(ctxvar, u,
                                  [user |-> JwtSub(req[u].auth, u)])
                         ELSE ctxvar
            IN  /\ ctxvar' = store
                /\ req' = [req EXCEPT ![u].pc = "entry",
                                      ![u].forwarded = @ + 1,
                                      ![u].saved = <<store[u]>>]
    /\ UNCHANGED <<pipelineVars, workerVars, lastOp, everSet, events, queue,
                   blocked, dropped, downLogs, outcome, life, minio, failed,
                   posts>>

\* RequestContextMiddleware.dispatch up to  await call_next(request); when the
\* set-up raises, the finally block runs and the exception leaves dispatch
RcEntry(u, setupOk) ==
    /\ req[u].pc = "entry"
    /\ IF setupOk
       THEN LET rid == req_id(req[u].hdr, u)
                store == set_request_context(ctxvar, u, EntryKwargs(u, rid))
            IN  /\ ctxvar' = store
                /\ req' = [req EXCEPT ![u].pc = "handler", ![u].rid = rid,
                                      ![u].saved = Append(@, store[u])]
                /\ outcome' = [outcome EXCEPT ![u] = "start"]
       ELSE LET fin == finally_clear(ctxvar, u, TRUE)
            IN  /\ ctxvar' = fin.store
                /\ req' = [req EXCEPT ![u].pc = "exit_jwt", ![u].exc = TRUE,
                                      ![u].clears = @ + fin.calls,
                                      ![u].clearAt = "setup"]
                /\ outcome' = outcome
    /\ UNCHANGED <<pipelineVars, workerVars, lastOp, everSet, events, queue,
                   blocked, dropped, downLogs, life, minio, failed, posts>>

\* get_current_user up to update_request_context(roles=...): decode_token and
\* the missing-sub check raise HTTPException
AuthSet(u) ==
    /\ req[u].pc = "handler"
    /\ outcome[u] = "start"
    /\ IF req[u].auth = "valid"
       THEN /\ ctxvar' = update_request_context(
                             set_request_context(ctxvar, u, [user |-> UserId(u)]),
                             u, [roles |-> Val(u, <<"viewer">>)])
            /\ req' = [req EXCEPT ![u].mark = Len(events), ![u].user = UserId(u)]
            /\ outcome' = [outcome EXCEPT ![u] = "authset"]
       ELSE /\ outcome' = [outcome EXCEPT ![u] = "http_error"]
            /\ UNCHANGED <<ctxvar, req>>
    /\ UNCHANGED <<pipelineVars, workerVars, lastOp, everSet, events, queue,
                   blocked, dropped, downLogs, life, minio, failed, posts>>

\* hp_log.debug("Auth resolved current user", extra={"user": user.username})
AuthLog(u) ==
    /\ req[u].pc = "handler"
    /\ outcome[u] = "authset"
    /\ LogCall(u, DEBUG, <<"Auth resolved current user">>,
               [user |-> Val(u, <<"alice">>)], "authed")

\* the role guard of a route that the user's roles do not satisfy
GuardStep(u) ==
    /\ req[u].pc = "handler"
    /\ outcome[u] = "authed"
    /\ RoleGuardForbidden(u)

\* a log call of the route handler or of a service it calls
EndpointLog(u) ==
    /\ req[u].pc = "handler"
    /\ outcome[u] \in {"start", "authed"}
    /\ Log(u, INFO, MsgOf(u), EmptyDict)

\* the route handler returns its result
HandlerReturn(u) ==
    /\ req[u].pc = "handler"
    /\ outcome[u] \in {"start", "authed"}
    /\ outcome' = [outcome EXCEPT ![u] = "returned"]
    /\ UNCHANGED <<pipelineVars, workerVars, ctxvar, lastOp, everSet, events,
                   queue, blocked, dropped, downLogs, life, minio, failed,
                   posts, req>>

\* the route handler or a dependency raises an exception that is not an
\* HTTPException
HandlerRaise(u) ==
    /\ req[u].pc = "handler"
    /\ outcome[u] \in {"start", "authed"}
    /\ outcome' = [outcome EXCEPT ![u] = "raised"]
    /\ UNCHANGED <<pipelineVars, workerVars, ctxvar, lastOp, everSet, events,
                   queue, blocked, dropped, downLogs, life, minio, failed,
                   posts, req>>

\* how the downstream application has ended
HandlerEnds == {"returned", "http_error", "403", "KeyError", "raised"}

\* RequestContextMiddleware.dispatch after call_next: an HTTPException has
\* become an error response downstream, any other exception leaves call_next
RcExit(u) ==
    /\ req[u].pc = "handler"
    /\ outcome[u] \in HandlerEnds
    /\ LET raised == outcome[u] \in {"KeyError", "raised"}
           own == [ctxvar EXCEPT ![u] = req[u].saved[Len(req[u].saved)]]
           fin == finally_clear(own, u, raised)
       IN  /\ ctxvar' = fin.store
           /\ req' = [req EXCEPT
                   ![u].pc = "exit_jwt",
                   ![u].saved = SubSeq(@, 1, Len(@) - 1),
                   ![u].exc = raised,
                   ![u].resp = IF raised THEN "none"
                               ELSE IF outcome[u] = "returned" THEN "ok"
                               ELSE "error",
                   ![u].hdrOut = IF raised THEN None ELSE req[u].rid,
                   ![u].clears = @ + fin.calls,
                   ![u].clearAt = outcome[u]]
    /\ UNCHANGED <<pipelineVars, workerVars, lastOp, everSet, events, queue,
                   blocked, dropped, downLogs, outcome, life, minio, failed,
                   posts>>

\* return await call_next(request)  of JWTContextMiddleware.dispatch; an
\* exception that leaves the middleware stack is answered by the
\* application's server-error response
JwtExit(u) ==
    /\ req[u].pc = "exit_jwt"
    /\ ctxvar' = [ctxvar EXCEPT ![u] = req[u].saved[1]]
    /\ req' = [req EXCEPT ![u].pc = "done", ![u].saved = <<>>,
                          ![u].resp = IF req[u].exc THEN "500" ELSE @]
    /\ UNCHANGED <<pipelineVars, workerVars, lastOp, everSet, events, queue,
                   blocked, dropped, downLogs, outcome, life, minio, failed,
                   posts>>

NextReq ==
    \/ \E u \in Units, a \in AuthKinds, h \in HeaderKinds : Arrive(u, a, h)
    \/ \E u \in Units : JwtDispatch(u)
    \/ \E u \in Units, ok \in BOOLEAN : RcEntry(u, ok)
    \/ \E u \in Units : AuthSet(u)
    \/ \E u \in Units : AuthLog(u)
    \/ \E u \in Units : GuardStep(u)
    \/ \E u \in Units : EndpointLog(u)
    \/ \E u \in Units : HandlerReturn(u)
    \/ \E u \in Units : HandlerRaise(u)
    \/ \E u \in Units : RcExit(u)
    \/ \E u \in Units : JwtExit(u)

SpecReq == InitRunning /\ [][NextReq]_vars

\* the events request u has logged
EventsOf(u) == {i \in 1..Len(events) : events[i].unit = u}

\* C25: once get_current_user has called set_request_context(user=...), every
\* event logged later in that request carries that user; and the request-entry
\* set of request_id/method/path/ip keeps a user that was set before it in the
\* same request
C25_UserAttribution ==
    \A u \in Units :
        /\ req[u].mark >= 0 =>
              \A i \in EventsOf(u) :
                  i > req[u].mark => DictGet(events[i].attrs, "user") = req[u].user
        /\ (req[u].pc = "handler" /\ req[u].mark < 0
                /\ Truthy(JwtSub(req[u].auth, u))) =>
              DictGet(CtxGet(ctxvar, u), "user") = JwtSub(req[u].auth, u)

C25_Witness ==
    \E u \in Units :
        /\ req[u].mark >= 0
        /\ \E i \in EventsOf(u) :
              i > req[u].mark /\ DictGet(events[i].attrs, "request_id") = req[u].rid
        /\ \E w \in Units \ {u} :
              /\ req[w].pc = "handler" /\ req[w].auth = "valid"
              /\ req[w].mark < 0

\* C26: for every request that enters RequestContextMiddleware,
\* clear_request_context is not called while the request is being set up or
\* handled, and has been called exactly once when dispatch is left, whether the
\* handler returned, produced an error response or raised, or the set-up raised
C26_ClearExactlyOnce ==
    \A u \in Units :
        /\ req[u].pc \in {"none", "jwt", "entry", "handler"} => req[u].clears = 0
        /\ (req[u].pc \in {"exit_jwt", "done"} /\ req[u].forwarded = 1) =>
              /\ req[u].clears = 1
              /\ req[u].clearAt \in HandlerEnds \cup {"setup"}

C26_Witness ==
    \E u \in Units :
        /\ req[u].pc = "done" /\ req[u].clearAt = "raised" /\ req[u].clears = 1
        /\ \E w \in Units \ {u} :
              req[w].pc = "exit_jwt" /\ req[w].clearAt = "setup" /\ req[w].clears = 1

\* C27: for every request that yields a response, the X-Request-ID response
\* header equals the request_id placed in the request's context, which is also
\* the request_id of every event logged during the request; that id is the
\* inbound x-request-id value when the header is present and a fresh id when
\* it is absent
C27_RequestIdEcho ==
    \A u \in Units :
        (req[u].pc = "done" /\ req[u].resp # "none" /\ req[u].rid # None) =>
            /\ req[u].hdrOut = req[u].rid
            /\ \A i \in EventsOf(u) :
                  DictGet(events[i].attrs, "request_id") = req[u].rid
            /\ req[u].rid = IF req[u].hdr = "absent"
                            THEN uuid4(u)
                            ELSE headers_get(req[u].hdr, u)

\* what JWTContextMiddleware.dispatch may do to the context of its task
JwtContextAfter(u) ==
    IF req[u].auth = "valid"
    THEN [set |-> TRUE,
          val |-> Merge(EmptyDict, [user |-> Val(u, <<"alice">>)])]
    ELSE Unset

C29_Forwards ==
    \A u \in Units :
        /\ req[u].pc \in {"none", "jwt"} => req[u].forwarded = 0
        /\ req[u].pc \in {"entry", "handler", "exit_jwt", "done"} =>
              req[u].forwarded = 1
        /\ req[u].pc = "done" => ctxvar[u] = JwtContextAfter(u)

C29_DispatchStep ==
    \A u \in Units :
        (req[u].pc = "jwt" /\ req'[u].pc # "jwt") =>
            /\ req'[u].pc = "entry"
            /\ ctxvar'[u] = JwtContextAfter(u)

\* C29: whatever the Authorization header is, JWTContextMiddleware forwards the
\* request downstream exactly once and never raises from its enrichment; the
\* only change it makes to the logging context is user = sub, made when the
\* token decodes with a non-empty sub
C29_JwtNonEnforcing == []C29_Forwards /\ [][C29_DispatchStep]_vars

C29_Witness ==
    \E u \in Units :
        /\ req[u].pc = "done" /\ req[u].auth = "invalid" /\ req[u].forwarded = 1
        /\ \E w \in Units \ {u} :
              /\ req[w].pc = "done" /\ req[w].auth = "valid"
              /\ DictGet(CtxGet(ctxvar, w), "user") = Val(w, <<"alice">>)

====
